---- MODULE Spec2Model ----
(***************************************************************************)
(* support_ticket.py: one run of main().  The run builds a SupportTicket   *)
(* from the command-line arguments and the process environment, then       *)
(* create() opens an SMTP_SSL session, logs in, builds the message from    *)
(* the template file and sends it.                                         *)
(*                                                                         *)
(* Text is a sequence of pieces.  Every text that str.replace scans (the   *)
(* template, the store number, the message, the body) and the SMTP_PORT    *)
(* value that int() parses is a sequence of one-character strings, so      *)
(* that substitution and parsing work on characters.  Texts that the       *)
(* program only copies or concatenates (addresses, exception               *)
(* descriptions) are sequences of longer pieces; an f-string is the        *)
(* concatenation \o of its parts.                                          *)
(***************************************************************************)
EXTENDS Integers, Sequences, FiniteSets, TLC

VARIABLES
    pc,            \* position of the run inside main() / create()
    env,           \* os.environ: name -> [set, value]
    file,          \* the file at TEMPLATE_FILE_PATH: [exists, content]
    store_number,  \* args.store_number
    message,       \* args.message
    self,          \* the SupportTicket object (NoSelf until constructed)
    session,       \* the SMTP_SSL session: "none", "open", "authenticated", "closed"
    body,          \* value returned by the last _get_body()
    msg,           \* value returned by the last _get_message()
    exc,           \* the exception in flight (NoExc when none)
    cause,         \* the exception create() caught at line 72
    output,        \* lines printed to standard output
    sent,          \* messages accepted by smtp.send_message
    connects,      \* calls of smtplib.SMTP_SSL(...)
    logins,        \* calls of smtp.login
    sends,         \* calls of smtp.send_message
    fileOpens      \* calls of open(self.template_file_path)

vars == <<pc, env, file, store_number, message, self, session, body, msg, exc,
          cause, output, sent, connects, logins, sends, fileOpens>>

----------------------------------------------------------------------------
(* Bounds *)

MaxTemplateFrags == 3

----------------------------------------------------------------------------
(* Text helpers *)

STORE_NUMBER == <<"S","T","O","R","E","_","N","U","M","B","E","R">>

SUPPORT_MESSAGE == <<"S","U","P","P","O","R","T","_","M","E","S","S","A","G","E">>

StartsWith(s, t) == Len(s) >= Len(t) /\ SubSeq(s, 1, Len(t)) = t

\* str.replace(old, new) for a non-empty old: scan left to right, replace each
\* non-overlapping occurrence, never rescan the inserted text.
RECURSIVE ReplaceFirstOnly(_, _, _)
ReplaceFirstOnly(s, old, new) ==
    IF Len(s) < Len(old) THEN s
    ELSE IF StartsWith(s, old)
         THEN new \o SubSeq(s, Len(old) + 1, Len(s))
         ELSE <<Head(s)>> \o ReplaceFirstOnly(Tail(s), old, new)

RECURSIVE Replace(_, _, _)
Replace(s, old, new) ==
    IF Len(s) < Len(old) THEN s
    ELSE IF StartsWith(s, old)
         THEN new \o Replace(SubSeq(s, Len(old) + 1, Len(s)), old, new)
         ELSE <<Head(s)>> \o Replace(Tail(s), old, new)

\* _get_body, lines 47-49: STORE_NUMBER is replaced first, SUPPORT_MESSAGE is
\* then replaced in the result.
GetBodyReversed(template, store, message_) ==
    Replace(Replace(template, SUPPORT_MESSAGE, message_), STORE_NUMBER, store)

GetBodyFirstOnly(template, store, message_) ==
    ReplaceFirstOnly(ReplaceFirstOnly(template, STORE_NUMBER, store),
                     SUPPORT_MESSAGE, message_)

GetBody(template, store, message_) ==
    Replace(Replace(template, STORE_NUMBER, store), SUPPORT_MESSAGE, message_)

SubjectPrefix ==
    <<"R","e","q","u","e","s","t"," ","s","u","p","p","o","r","t"," ",
      "f","o","r"," ","s","t","o","r","e"," ">>

\* _get_subject, line 55
GetSubject(store) == SubjectPrefix \o store

Digits == {"0","1","2","3","4","5","6","7","8","9"}

DigitValue(c) ==
    CASE c = "0" -> 0 [] c = "1" -> 1 [] c = "2" -> 2 [] c = "3" -> 3
      [] c = "4" -> 4 [] c = "5" -> 5 [] c = "6" -> 6 [] c = "7" -> 7
      [] c = "8" -> 8 [] c = "9" -> 9

\* int(s) succeeds on an optional sign followed by at least one digit (the
\* inputs enumerated below hold no whitespace and no underscore).
Unsigned(s) == IF s # <<>> /\ Head(s) \in {"+", "-"} THEN Tail(s) ELSE s

IsInt(s) == Unsigned(s) # <<>> /\ \A i \in 1..Len(Unsigned(s)) : Unsigned(s)[i] \in Digits

RECURSIVE DigitsValue(_)
DigitsValue(s) ==
    IF s = <<>> THEN 0
    ELSE 10 * DigitsValue(SubSeq(s, 1, Len(s) - 1)) + DigitValue(s[Len(s)])

ParseInt(s) ==
    IF Head(s) = "-" THEN 0 - DigitsValue(Unsigned(s)) ELSE DigitsValue(Unsigned(s))

----------------------------------------------------------------------------
(* Exceptions *)

NoExc == [type |-> "None", text |-> <<>>]

\* BaseSupportTicketException and its two subclasses, lines 12-21
IsBaseSupportTicketException(type) ==
    type \in {"BaseSupportTicketException", "MissingConfiguration", "TicketCreationError"}

\* str(KeyError(name)) is the repr of the name
KeyErrorText(name) == <<"'", name, "'">>

\* line 40
MissingConfiguration(name) ==
    [type |-> "MissingConfiguration",
     text |-> <<"Missing configuration variable: ">> \o KeyErrorText(name)]

\* what int() raises on a string that is no integer, line 36
ValueError(s) ==
    [type |-> "ValueError",
     text |-> <<"invalid literal for int() with base 10: ", "'">> \o s \o <<"'">>]

\* line 73, with the except clause narrowed to smtplib.SMTPException
TicketCreationErrorSmtpOnly(e) ==
    IF e.type \in {"SMTPAuthenticationError", "SMTPRecipientsRefused"}
    THEN [type |-> "TicketCreationError", text |-> <<"Unable to send email: ">> \o e.text]
    ELSE e

\* line 73
TicketCreationError(e) ==
    [type |-> "TicketCreationError", text |-> <<"Unable to send email: ">> \o e.text]

\* what open() raises on a path that does not exist, line 44
FileNotFoundError(path) ==
    [type |-> "FileNotFoundError",
     text |-> <<"[Errno 2] No such file or directory: ", "'">> \o path \o <<"'">>]

\* failures of the transport at SMTP_SSL(...), login and send_message
ConnectErrors ==
    { [type |-> "OSError", text |-> <<"[Errno 111] Connection refused">>],
      [type |-> "SSLError", text |-> <<"[SSL: WRONG_VERSION_NUMBER] wrong version number">>] }

LoginErrors ==
    { [type |-> "SMTPAuthenticationError", text |-> <<"(535, b'Authentication failed')">>] }

SendErrors ==
    { [type |-> "SMTPRecipientsRefused", text |-> <<"{'team@example.com': (550, b'rejected')}">>] }

----------------------------------------------------------------------------
(* Environment, arguments and template file *)

EnvOrder ==
    <<"EMAIL_ADDRESS", "EMAIL_PASSWORD", "SMTP_SERVER", "SMTP_PORT",
      "TEMPLATE_FILE_PATH", "SUPPORT_TEAM_EMAIL">>

EnvNames == {EnvOrder[i] : i \in 1..Len(EnvOrder)}

Unset == [set |-> FALSE, value |-> <<>>]

IsSet(v) == [set |-> TRUE, value |-> v]

EnvValues(name) ==
    CASE name = "EMAIL_ADDRESS"      -> { <<"bot@example.com">> }
      [] name = "EMAIL_PASSWORD"     -> { <<"hunter2">> }
      [] name = "SMTP_SERVER"        -> { <<"smtp.example.com">> }
      [] name = "SMTP_PORT"          -> { <<"4","6","5">>, <<"a","b","c">>, <<>> }
      [] name = "TEMPLATE_FILE_PATH" -> { <<"template.html">> }
      [] name = "SUPPORT_TEAM_EMAIL" -> { <<"team@example.com">> }

Environments ==
    { e \in [EnvNames -> {Unset} \cup UNION {{IsSet(v) : v \in EnvValues(n)} : n \in EnvNames}] :
        \A n \in EnvNames : e[n].set => e[n].value \in EnvValues(n) }

\* command-line values for store_number and message
ArgValues ==
    { <<>>, <<"4","2">>, STORE_NUMBER, SUPPORT_MESSAGE,
      <<"N","U","M","B","E","R">>, <<"M","E","S","S","A","G","E">> }

TemplateFrags ==
    { <<"x">>, STORE_NUMBER, SUPPORT_MESSAGE,
      <<"S","T","O","R","E","_">>, <<"N","U","M","B","E","R">>,
      <<"S","U","P","P","O","R","T","_">>, <<"M","E","S","S","A","G","E">> }

RECURSIVE Concats(_)
Concats(n) ==
    IF n = 0 THEN { <<>> }
    ELSE Concats(n - 1) \cup { t \o f : t \in Concats(n - 1), f \in TemplateFrags }

\* template files of the substitution specification
Templates == Concats(MaxTemplateFrags)

\* template files of the run specification
RunTemplates ==
    { <<"S","t","o","r","e",":"," ">> \o STORE_NUMBER \o <<","," ","M","s","g",":"," ">> \o SUPPORT_MESSAGE,
      STORE_NUMBER \o SUPPORT_MESSAGE \o STORE_NUMBER,
      <<"h","i">> }

NoFile == [exists |-> FALSE, content |-> <<>>]

FileWith(t) == [exists |-> TRUE, content |-> t]

----------------------------------------------------------------------------
(* The SupportTicket object and the message *)

NoSelf == [constructed |-> FALSE]

NoMsg == [subtype |-> "none", From |-> <<>>, To |-> <<>>, Subject |-> <<>>, payload |-> <<>>]

\* index in EnvOrder of the first read of _get_env_variables that raises
\* (0 when none does): os.environ[name] raises KeyError on an unset name,
\* int(...) raises ValueError on a set SMTP_PORT that is no integer.
ReadFails(e, i) ==
    \/ ~e[EnvOrder[i]].set
    \/ EnvOrder[i] = "SMTP_PORT" /\ ~IsInt(e[EnvOrder[i]].value)

FirstFailure(e) ==
    IF \E i \in 1..Len(EnvOrder) : ReadFails(e, i)
    THEN CHOOSE i \in 1..Len(EnvOrder) :
            ReadFails(e, i) /\ \A j \in 1..(i - 1) : ~ReadFails(e, j)
    ELSE 0

\* the exception leaving _get_env_variables, lines 32-40
EnvFailure(e) ==
    LET n == EnvOrder[FirstFailure(e)] IN
    IF ~e[n].set THEN MissingConfiguration(n) ELSE ValueError(e[n].value)

\* the fields set by __init__ and _get_env_variables, lines 26-38
NewSelf(e, store, message_) ==
    [constructed        |-> TRUE,
     store_number       |-> store,
     message            |-> message_,
     email_address      |-> e["EMAIL_ADDRESS"].value,
     email_password     |-> e["EMAIL_PASSWORD"].value,
     smtp_server        |-> e["SMTP_SERVER"].value,
     smtp_port          |-> ParseInt(e["SMTP_PORT"].value),
     template_file_path |-> e["TEMPLATE_FILE_PATH"].value,
     support_team_email |-> e["SUPPORT_TEAM_EMAIL"].value]

\* _get_message with From and To exchanged
MakeMessageSwapped(s, b) ==
    [subtype |-> "html", From |-> s.support_team_email, To |-> s.email_address,
     Subject |-> GetSubject(s.store_number), payload |-> b]

\* _get_message, lines 60-64
MakeMessage(s, b) ==
    [subtype |-> "html", From |-> s.email_address, To |-> s.support_team_email,
     Subject |-> GetSubject(s.store_number), payload |-> b]

----------------------------------------------------------------------------
(* Initial states *)

InitCommon ==
    /\ store_number \in ArgValues
    /\ message \in ArgValues
    /\ self = NoSelf
    /\ session = "none"
    /\ body = <<>>
    /\ msg = NoMsg
    /\ exc = NoExc
    /\ cause = NoExc
    /\ output = <<>>
    /\ sent = <<>>
    /\ connects = 0
    /\ logins = 0
    /\ sends = 0
    /\ fileOpens = 0

\* main() after parse_args, line 82
Init ==
    /\ pc = "main"
    /\ env \in Environments
    /\ file \in {NoFile} \cup {FileWith(t) : t \in RunTemplates}
    /\ InitCommon

----------------------------------------------------------------------------
(* The run *)

\* SupportTicket(args.store_number, args.message), lines 25-40
Construct ==
    /\ pc = "main"
    /\ IF FirstFailure(env) = 0
       THEN /\ self' = NewSelf(env, store_number, message)
            /\ pc' = "create"
            /\ exc' = exc
       ELSE /\ exc' = EnvFailure(env)
            /\ pc' = "main_except"
            /\ self' = self
    /\ UNCHANGED <<env, file, store_number, message, session, body, msg, cause,
                   output, sent, connects, logins, sends, fileOpens>>

\* smtplib.SMTP_SSL(self.smtp_server, self.smtp_port), line 69
Connect ==
    /\ pc = "create"
    /\ connects' = connects + 1
    /\ \/ /\ session' = "open"
          /\ pc' = "login"
          /\ exc' = exc
       \/ \E e \in ConnectErrors :
             /\ exc' = e
             /\ pc' = "create_except"
             /\ session' = session
    /\ UNCHANGED <<env, file, store_number, message, self, body, msg, cause,
                   output, sent, logins, sends, fileOpens>>

\* a login whose failure is swallowed
LoginIgnoringFailure ==
    /\ pc = "login"
    /\ logins' = logins + 1
    /\ pc' = "get_message"
    /\ exc' = exc
    /\ \/ session' = "authenticated"
       \/ \E e \in LoginErrors : session' = session
    /\ UNCHANGED <<env, file, store_number, message, self, body, msg,
                   cause, output, sent, connects, sends, fileOpens>>

\* smtp.login(self.email_address, self.email_password), line 70
Login ==
    /\ pc = "login"
    /\ logins' = logins + 1
    /\ \/ /\ session' = "authenticated"
          /\ pc' = "get_message"
          /\ exc' = exc
       \/ \E e \in LoginErrors :
             /\ exc' = e
             /\ pc' = "smtp_exit"
             /\ session' = session
    /\ UNCHANGED <<env, file, store_number, message, self, body, msg,
                   cause, output, sent, connects, sends, fileOpens>>

\* self._get_message(), lines 58-64, with _get_body, lines 42-51
GetMessage ==
    /\ pc = "get_message"
    /\ fileOpens' = fileOpens + 1
    /\ IF file.exists
       THEN /\ body' = GetBody(file.content, self.store_number, self.message)
            /\ msg' = MakeMessage(self, body')
            /\ pc' = "send"
            /\ exc' = exc
       ELSE /\ exc' = FileNotFoundError(self.template_file_path)
            /\ pc' = "smtp_exit"
            /\ UNCHANGED <<body, msg>>
    /\ UNCHANGED <<env, file, store_number, message, self, session, cause,
                   output, sent, connects, logins, sends>>

\* smtp.send_message(msg), line 71
SendMessage ==
    /\ pc = "send"
    /\ sends' = sends + 1
    /\ \/ /\ sent' = Append(sent, msg)
          /\ exc' = exc
       \/ \E e \in SendErrors :
             /\ exc' = e
             /\ sent' = sent
    /\ pc' = "smtp_exit"
    /\ UNCHANGED <<env, file, store_number, message, self, session, body, msg,
                   cause, output, connects, logins, fileOpens>>

\* an exit of the with block that closes the session only on success
SmtpExitOnSuccessOnly ==
    /\ pc = "smtp_exit"
    /\ session' = IF exc = NoExc THEN "closed" ELSE session
    /\ pc' = IF exc = NoExc THEN "exit" ELSE "create_except"
    /\ UNCHANGED <<env, file, store_number, message, self, body, msg, exc, cause,
                   output, sent, connects, logins, sends, fileOpens>>

\* leaving the with block, line 69: SMTP.__exit__ closes the session, then the
\* exception in flight (if any) goes on to the except clause; without one
\* create() returns and main() ends.
SmtpExit ==
    /\ pc = "smtp_exit"
    /\ session' = "closed"
    /\ pc' = IF exc = NoExc THEN "exit" ELSE "create_except"
    /\ UNCHANGED <<env, file, store_number, message, self, body, msg, exc, cause,
                   output, sent, connects, logins, sends, fileOpens>>

\* except Exception as e: raise TicketCreationError(...), lines 72-73
CreateExcept ==
    /\ pc = "create_except"
    /\ cause' = exc
    /\ exc' = TicketCreationError(exc)
    /\ pc' = "main_except"
    /\ UNCHANGED <<env, file, store_number, message, self, session, body, msg,
                   output, sent, connects, logins, sends, fileOpens>>

\* except BaseSupportTicketException as e: print(...), lines 86-87; any other
\* exception leaves main() unhandled.
MainExcept ==
    /\ pc = "main_except"
    /\ IF IsBaseSupportTicketException(exc.type)
       THEN /\ output' = Append(output, <<"Error creating ticket: ">> \o exc.text)
            /\ pc' = "exit"
       ELSE /\ output' = output
            /\ pc' = "crashed"
    /\ UNCHANGED <<env, file, store_number, message, self, session, body, msg,
                   exc, cause, sent, connects, logins, sends, fileOpens>>

Next ==
    \/ Construct
    \/ Connect
    \/ Login
    \/ GetMessage
    \/ SendMessage
    \/ SmtpExit
    \/ CreateExcept
    \/ MainExcept

Spec == Init /\ [][Next]_vars

----------------------------------------------------------------------------
(* The substitution on its own: _get_body applied to every template        *)
(* of the bound, for every store number and message.                       *)

InitRender ==
    /\ pc = "get_body"
    /\ env = [n \in EnvNames |-> IsSet(CHOOSE v \in EnvValues(n) : IsInt(v) \/ n # "SMTP_PORT")]
    /\ file \in {FileWith(t) : t \in Templates}
    /\ InitCommon

\* self._get_body(), lines 42-51, on an existing template file
CallGetBody ==
    /\ pc = "get_body"
    /\ file.exists
    /\ fileOpens' = fileOpens + 1
    /\ body' = GetBody(file.content, store_number, message)
    /\ pc' = "got_body"
    /\ UNCHANGED <<env, file, store_number, message, self, session, msg, exc,
                   cause, output, sent, connects, logins, sends>>

NextRender == CallGetBody

SpecRender == InitRender /\ [][NextRender]_vars

----------------------------------------------------------------------------
(* Vocabulary of the properties *)

\* number of places where tok occurs in s
Count(s, tok) ==
    Cardinality({ i \in 1..(Len(s) - Len(tok) + 1) : SubSeq(s, i, i + Len(tok) - 1) = tok })

NoToken(s) == Count(s, STORE_NUMBER) = 0 /\ Count(s, SUPPORT_MESSAGE) = 0

\* the template with both tokens replaced in a single left-to-right pass:
\* what stands where each token was is exactly the supplied value
RECURSIVE Simultaneous(_, _, _)
Simultaneous(t, forStore, forMessage) ==
    IF t = <<>> THEN <<>>
    ELSE IF StartsWith(t, STORE_NUMBER)
         THEN forStore \o Simultaneous(SubSeq(t, Len(STORE_NUMBER) + 1, Len(t)), forStore, forMessage)
    ELSE IF StartsWith(t, SUPPORT_MESSAGE)
         THEN forMessage \o Simultaneous(SubSeq(t, Len(SUPPORT_MESSAGE) + 1, Len(t)), forStore, forMessage)
    ELSE <<Head(t)>> \o Simultaneous(Tail(t), forStore, forMessage)

InPlace == Simultaneous(file.content, store_number, message)

\* the text between the two substitutions of _get_body
Intermediate == Replace(file.content, STORE_NUMBER, store_number)

Rendered == pc = "got_body"

FirstAbsent(e) ==
    CHOOSE i \in 1..Len(EnvOrder) :
        ~e[EnvOrder[i]].set /\ \A j \in 1..(i - 1) : e[EnvOrder[j]].set

SomeAbsent(e) == \E n \in EnvNames : ~e[n].set

\* SMTP_PORT is set to a non-integer and is the first read that fails
MalformedPort(e) ==
    /\ \A n \in {"EMAIL_ADDRESS", "EMAIL_PASSWORD", "SMTP_SERVER", "SMTP_PORT"} : e[n].set
    /\ ~IsInt(e["SMTP_PORT"].value)

SessionOpen == session \in {"open", "authenticated"}

Finished == pc \in {"exit", "crashed"}

\* the outcome of create(): NotSent, Sent or Failed
Outcome ==
    IF self = NoSelf THEN "NotSent"
    ELSE IF sent # <<>> THEN "Sent"
    ELSE IF exc # NoExc THEN "Failed"
    ELSE "NotSent"

TransportFailures ==
    ConnectErrors \cup LoginErrors \cup SendErrors

----------------------------------------------------------------------------
(* Claims *)

\* C1: a set but non-integer SMTP_PORT makes construction fail with
\* MissingConfiguration (a BaseSupportTicketException), as a missing variable
\* does, and create() and the SMTP connection are never reached.
C1_MalformedPortIsConfigurationError ==
    (MalformedPort(env) /\ pc # "main") =>
        /\ exc.type = "MissingConfiguration"
        /\ IsBaseSupportTicketException(exc.type)
        /\ self = NoSelf
        /\ connects = 0

\* C2: when the template file does not exist and opening it fails, create()
\* fails with TicketCreationError and no SMTP connection was opened and no
\* login attempted in that run.
C2_MissingTemplateNoNetwork ==
    (~file.exists /\ fileOpens > 0) =>
        /\ connects = 0
        /\ logins = 0
        /\ (pc \in {"main_except", "exit", "crashed"} => exc.type = "TicketCreationError")

\* C3 as stated: for every template, store number and message the body has
\* no occurrence of either token and the supplied values stand exactly where
\* the tokens were.
C3_BodyHasNoToken ==
    Rendered => (NoToken(body) /\ body = InPlace)

\* C3 amended: whenever the template with the supplied values put in place of
\* the tokens holds no token (no value contains one or forms one with the
\* text next to it), the body is exactly that text and holds no token.
C3_BodyInPlaceWhenNoTokenFormed ==
    (Rendered /\ NoToken(InPlace)) => (body = InPlace /\ NoToken(body))

C3_Witness ==
    /\ Rendered
    /\ Count(file.content, STORE_NUMBER) > 1
    /\ Count(file.content, SUPPORT_MESSAGE) > 0
    /\ store_number = <<"4","2">>
    /\ message # <<>>
    /\ NoToken(InPlace)

\* C4: every failing run of main() ends by printing one line
\* 'Error creating ticket: <description>' and returning normally; none ends
\* with an unhandled exception.
C4_EveryFailurePrinted ==
    /\ pc # "crashed"
    /\ (Finished /\ exc # NoExc) =>
          output = << <<"Error creating ticket: ">> \o exc.text >>

\* C5: if any of the six variables is unset, construction fails with
\* MissingConfiguration naming the first unset variable in read order, and
\* the template file is never opened and no SMTP connection attempted.
C5_AbsentVariableNamed ==
    (SomeAbsent(env) /\ pc # "main") =>
        /\ exc = MissingConfiguration(EnvOrder[FirstAbsent(env)])
        /\ self = NoSelf
        /\ fileOpens = 0
        /\ connects = 0

\* C6: once create() has left the with block, by return or by exception,
\* the session it opened is closed; no final state has an open session.
C6_SessionClosedOnEveryExit ==
    /\ pc \in {"create_except", "main_except", "exit", "crashed"} => ~SessionOpen
    /\ (connects > 0 /\ session = "none") => exc \in ConnectErrors \/ cause \in ConnectErrors
    /\ (Finished /\ logins > 0) => session = "closed"

C6_Witness ==
    /\ pc = "create_except"
    /\ session = "closed"
    /\ exc.type = "SMTPAuthenticationError"

\* C7: every failure inside create() (connect, login, template read, send)
\* reaches the caller as TicketCreationError whose message is 'Unable to send
\* email: ' followed by the cause's description; nothing else escapes.
C7_FailuresWrapped ==
    /\ (pc = "main_except" /\ self # NoSelf) =>
          /\ exc.type = "TicketCreationError"
          /\ exc.text = <<"Unable to send email: ">> \o cause.text
          /\ cause \in TransportFailures \cup {FileNotFoundError(self.template_file_path)}
    /\ (pc = "crashed") => self = NoSelf

C7_Witness ==
    /\ pc = "main_except"
    /\ cause.type = "FileNotFoundError"
    /\ exc.type = "TicketCreationError"

C9_MessageFields ==
    /\ [](msg # NoMsg =>
            /\ msg.subtype = "html"
            /\ msg.From = env["EMAIL_ADDRESS"].value
            /\ msg.To = env["SUPPORT_TEAM_EMAIL"].value
            /\ msg.Subject = SubjectPrefix \o store_number
            /\ msg.payload = GetBody(file.content, store_number, message))
    /\ [][pc = "get_message" => self' = self]_vars

C9_Witness ==
    /\ pc = "send"
    /\ msg # NoMsg
    /\ store_number = <<"4","2">>
    /\ msg.payload # file.content

\* C10: the substitutions run one after the other.  A SUPPORT_MESSAGE brought
\* in by the store number is replaced by the message; a STORE_NUMBER brought
\* in by the message stays in the body; and when the first substitution
\* brings in no SUPPORT_MESSAGE the body is the simultaneous substitution.
C10_SequentialSubstitution ==
    Rendered =>
        /\ store_number = SUPPORT_MESSAGE =>
              body = Simultaneous(file.content, message, message)
        /\ message = STORE_NUMBER =>
              Count(body, STORE_NUMBER) >= Count(Intermediate, SUPPORT_MESSAGE)
        /\ Count(Intermediate, SUPPORT_MESSAGE) = Count(file.content, SUPPORT_MESSAGE) =>
              body = InPlace

C10_Witness ==
    /\ Rendered
    /\ store_number = SUPPORT_MESSAGE
    /\ message = STORE_NUMBER
    /\ Count(file.content, STORE_NUMBER) > 0
    /\ Count(file.content, SUPPORT_MESSAGE) > 0
    /\ Count(body, SUPPORT_MESSAGE) = 0
    /\ Count(body, STORE_NUMBER) = Count(Intermediate, SUPPORT_MESSAGE)
    /\ body # InPlace

====
